---- MODULE Spec2Model ----
(***************************************************************************)
(* Model of openxai/model.py: the pretrained-model loader LoadModel, the   *)
(* two classifiers LogisticRegression and ArtificialNeuralNetwork, the     *)
(* hidden-layer probe predict_layer and the predict wrappers.              *)
(***************************************************************************)
EXTENDS Integers, Sequences, FiniteSets, TLC

VARIABLES
    pc,          \* position of the running LoadModel call
    args,        \* arguments of the running LoadModel call
    response,    \* r.content of the requests.get of the call, or None
    files,       \* names of the files written under ./models/pretrained/
    dirs,        \* directories created by os.makedirs
    state_dict,  \* result of torch.load, or None
    num_features,\* local num_features, or None
    model,       \* local model, or None
    outcome,     \* how the call ended: the raised exception or the returned model
    trace,       \* steps the running call has executed, in order
    net,         \* a classifier constructed directly by its constructor
    probe,       \* last predict_layer call on net
    pred         \* last predict call on net

loaderVars == <<pc, args, response, files, dirs, state_dict, num_features, model, outcome, trace>>
netVars == <<net, probe, pred>>
vars == <<pc, args, response, files, dirs, state_dict, num_features, model, outcome, trace, net, probe, pred>>

None == [none |-> TRUE]

----------------------------------------------------------------------------
(* Bounds *)

MaxDim == 2        \* feature counts 1..MaxDim
MaxHidden == 2     \* hidden_layers of length 0..MaxHidden
MaxWidth == 2      \* hidden widths 1..MaxWidth
MaxSeed == 1       \* parameter initialisations / checkpoint contents 0..MaxSeed
MaxIdx == 3        \* hidden_layer_idx in -MaxIdx..MaxIdx
MaxBatch == 2      \* leading batch sizes 1..MaxBatch

----------------------------------------------------------------------------
(* Constants of the program *)

HiddenWidth == 100
NClass == 2

dataverse_prefix == "https://dataverse.harvard.edu/api/access/datafile/"

dataverse_ids ==
    [lr |-> [adult |-> "8550955", compas |-> "8550949", gaussian |-> "8550960",
             german |-> "8550945", gmsc |-> "8550948", heart |-> "8550956",
             heloc |-> "8550950", pima |-> "8550959"],
     ann |-> [adult |-> "8550958", compas |-> "8550951", gaussian |-> "8550957",
              german |-> "8550946", gmsc |-> "8550947", heart |-> "8550954",
              heloc |-> "8550952", pima |-> "8550953"]]

----------------------------------------------------------------------------
(* Tensors, layers and classifiers *)

\* a parameter tensor: its shape and its contents (an opaque content id)
Tensor(shape, data) == [shape |-> shape, data |-> data]

\* contents of a parameter that nn.Linear has initialised and nothing has overwritten
FreshData == -1

\* nn.Linear(in_features, out_features)
Linear(in_features, out_features) ==
    [type |-> "Linear", in_features |-> in_features, out_features |-> out_features]

\* the shared activation module activation_functions['relu']
ReLU == [type |-> "ReLU", in_features |-> 0, out_features |-> 0]

\* ArtificialNeuralNetwork.__init__: the list model_layers
RECURSIVE ANNLayers(_, _, _)
ANNLayers(previous_layer, hidden_layers, n_class) ==
    IF hidden_layers = <<>>
    THEN <<Linear(previous_layer, n_class)>>
    ELSE <<Linear(previous_layer, Head(hidden_layers)), ReLU>>
         \o ANNLayers(Head(hidden_layers), Tail(hidden_layers), n_class)

\* name prefix of the parameters of the k-th layer (1-based) held by attribute
\* attr: an nn.Sequential numbers its children from 0, a plain nn.Linear has no number
ChildName(attr, sequential, k) ==
    IF sequential THEN attr \o "." \o ToString(k - 1) ELSE attr

\* names and shapes of the parameters nn.Module registers for a layer list,
\* in registration order: "<child>.weight", "<child>.bias" per Linear
RECURSIVE ModuleParams(_, _, _, _)
ModuleParams(layers, k, attr, sequential) ==
    IF k > Len(layers) THEN <<>>
    ELSE (IF layers[k].type = "Linear"
          THEN << [name |-> ChildName(attr, sequential, k) \o ".weight",
                   tensor |-> Tensor(<<layers[k].out_features, layers[k].in_features>>, FreshData)],
                  [name |-> ChildName(attr, sequential, k) \o ".bias",
                   tensor |-> Tensor(<<layers[k].out_features>>, FreshData)] >>
          ELSE <<>>)
         \o ModuleParams(layers, k + 1, attr, sequential)

\* LogisticRegression(input_dim)
LogisticRegression(input_dim) ==
    [name |-> "LogisticRegression", abbrv |-> "lr",
     input_dim |-> input_dim, n_class |-> NClass,
     network |-> <<Linear(input_dim, NClass)>>,
     params |-> ModuleParams(<<Linear(input_dim, NClass)>>, 1, "linear", FALSE)]

\* ArtificialNeuralNetwork(input_dim, hidden_layers)
ArtificialNeuralNetwork(input_dim, hidden_layers) ==
    [name |-> "ArtificialNeuralNetwork", abbrv |-> "ann",
     input_dim |-> input_dim, n_class |-> NClass,
     network |-> ANNLayers(input_dim, hidden_layers, NClass),
     params |-> ModuleParams(ANNLayers(input_dim, hidden_layers, NClass), 1, "network", TRUE)]

Names(mapping) == {mapping[i].name : i \in 1..Len(mapping)}
Lookup(mapping, n) == (CHOOSE i \in 1..Len(mapping) : mapping[i].name = n)

\* nn.Module.load_state_dict(state_dict), strict: the error it collects, if any
BindErrors(m, sd) ==
    LET missing == Names(m.params) \ Names(sd)
        unexpected == Names(sd) \ Names(m.params)
        mismatch == {n \in Names(m.params) \cap Names(sd) :
                        m.params[Lookup(m.params, n)].tensor.shape
                            # sd[Lookup(sd, n)].tensor.shape}
    IN  [missing |-> missing, unexpected |-> unexpected, mismatch |-> mismatch]

NoBindErrors == [missing |-> {}, unexpected |-> {}, mismatch |-> {}]

\* the parameters of m after a load_state_dict(sd) that raised nothing
Bound(m, sd) ==
    [m EXCEPT !.params =
        [i \in 1..Len(m.params) |->
            [name |-> m.params[i].name,
             tensor |-> sd[Lookup(sd, m.params[i].name)].tensor]]]

----------------------------------------------------------------------------
(* What the artifact store can answer *)

DataNames == {"adult", "pima", "not-a-real-dataset"}
ModelKinds == {"lr", "ann", "svm"}

\* the state_dict a trained model of the given kind and width was saved with
SavedStateDict(kind, d, seed) ==
    LET m == IF kind = "ann" THEN ArtificialNeuralNetwork(d, <<HiddenWidth, HiddenWidth>>)
                             ELSE LogisticRegression(d)
    IN  [i \in 1..Len(m.params) |->
            [name |-> m.params[i].name,
             tensor |-> Tensor(m.params[i].tensor.shape, seed)]]

\* a saved state_dict and the ways a checkpoint can deviate from it
Deviations(sd) ==
    { sd,
      Tail(sd),
      SubSeq(sd, 1, Len(sd) - 1),
      sd \o << [name |-> "extra.weight", tensor |-> Tensor(<<NClass, 1>>, 0)] >>,
      <<sd[2], sd[1]>> \o SubSeq(sd, 3, Len(sd)),
      [sd EXCEPT ![1].name = "renamed.weight"],
      [sd EXCEPT ![1].tensor.shape = <<sd[1].tensor.shape[1] + 1, sd[1].tensor.shape[2]>>],
      [sd EXCEPT ![2].tensor.shape = <<sd[2].tensor.shape[1] + 1>>] }

Mappings ==
    {<<>>} \cup
    UNION { Deviations(SavedStateDict(kind, d, seed)) :
                kind \in {"lr", "ann"}, d \in 1..MaxDim, seed \in 0..MaxSeed }

\* r.content: bytes torch.load can or cannot unpickle into a mapping
Contents ==
    { [picklable |-> TRUE, mapping |-> sd] : sd \in Mappings }
    \cup { [picklable |-> FALSE, mapping |-> <<>>] }

----------------------------------------------------------------------------
(* LoadModel *)

Exc(type, msg) == [type |-> type, msg |-> msg]
NoExc == Exc("", "")

Running == [status |-> "running", exc |-> NoExc, value |-> None]
Raised(e) == [status |-> "raised", exc |-> e, value |-> None]
Returned(m) == [status |-> "returned", exc |-> NoExc, value |-> m]

model_path == "./models/pretrained/"

\* a caller invokes LoadModel(data_name, ml_model, pretrained)
Call(data_name, ml_model, pretrained) ==
    /\ pc \in {"idle", "done"}
    /\ pc' = "L31"
    /\ args' = [data_name |-> data_name, ml_model |-> ml_model, pretrained |-> pretrained]
    /\ response' = None
    /\ state_dict' = None
    /\ num_features' = None
    /\ model' = None
    /\ outcome' = Running
    /\ trace' = <<>>
    /\ UNCHANGED <<files, dirs, netVars>>

\* CheckPretrained without the else branch: the flag is never looked at
CheckPretrainedIgnored ==
    /\ pc = "L31"
    /\ trace' = Append(trace, "check_pretrained")
    /\ dirs' = dirs \cup {model_path}
    /\ pc' = "L34"
    /\ UNCHANGED <<args, response, files, state_dict, num_features, model, outcome, netVars>>

\* lines 31-33 and 48-50: if pretrained: os.makedirs(...) else: raise
CheckPretrained ==
    /\ pc = "L31"
    /\ trace' = Append(trace, "check_pretrained")
    /\ IF args.pretrained
       THEN /\ dirs' = dirs \cup {model_path}
            /\ pc' = "L34"
            /\ UNCHANGED outcome
       ELSE /\ outcome' = Raised(Exc("NotImplementedError",
                            "does not support training a ML model from scratch, yet"))
            /\ pc' = "done"
            /\ UNCHANGED dirs
    /\ UNCHANGED <<args, response, files, state_dict, num_features, model, netVars>>

\* lines 34 and 45-47: if data_name in dataverse_ids[ml_model]: ... else: raise
CheckRegistry ==
    /\ pc = "L34"
    /\ trace' = Append(trace, "check_registry")
    /\ IF args.ml_model \notin DOMAIN dataverse_ids
       THEN /\ outcome' = Raised(Exc("KeyError", args.ml_model))
            /\ pc' = "done"
       ELSE IF args.data_name \in DOMAIN dataverse_ids[args.ml_model]
       THEN /\ pc' = "L35"
            /\ UNCHANGED outcome
       ELSE /\ outcome' = Raised(Exc("NotImplementedError",
                            "does not support this data set for these models"))
            /\ pc' = "done"
    /\ UNCHANGED <<args, response, files, dirs, state_dict, num_features, model, netVars>>

\* line 35: r = requests.get(dataverse_prefix + id), answered
Fetch(content) ==
    /\ pc = "L35"
    /\ trace' = Append(trace, "fetch")
    /\ response' = [url |-> dataverse_prefix \o dataverse_ids[args.ml_model][args.data_name],
                    content |-> content]
    /\ pc' = "L36"
    /\ UNCHANGED <<args, files, dirs, state_dict, num_features, model, outcome, netVars>>

\* FetchFails wrapped in a retry loop: the request is issued again
FetchFailsRetried ==
    /\ pc = "L35"
    /\ trace' = Append(trace, "fetch")
    /\ pc' = "L35"
    /\ UNCHANGED <<args, response, files, dirs, state_dict, num_features, model, outcome, netVars>>

\* line 35: requests.get raises (no connection)
FetchFails ==
    /\ pc = "L35"
    /\ trace' = Append(trace, "fetch")
    /\ outcome' = Raised(Exc("ConnectionError", ""))
    /\ pc' = "done"
    /\ UNCHANGED <<args, response, files, dirs, state_dict, num_features, model, netVars>>

\* lines 36-37: open(model_path+model_filename, 'wb').write(r.content)
WriteFile ==
    /\ pc = "L36"
    /\ trace' = Append(trace, "write")
    /\ files' = files \cup {model_path \o args.ml_model \o "_" \o args.data_name \o ".pt"}
    /\ pc' = "L38"
    /\ UNCHANGED <<args, response, dirs, state_dict, num_features, model, outcome, netVars>>

\* line 38: state_dict = torch.load(...)
Deserialize ==
    /\ pc = "L38"
    /\ trace' = Append(trace, "deserialize")
    /\ IF response.content.picklable
       THEN /\ state_dict' = response.content.mapping
            /\ pc' = "L39"
            /\ UNCHANGED outcome
       ELSE /\ outcome' = Raised(Exc("UnpicklingError", ""))
            /\ pc' = "done"
            /\ UNCHANGED state_dict
    /\ UNCHANGED <<args, response, files, dirs, num_features, model, netVars>>

\* InferFeatures reading shape[0], the row count, instead of shape[1]
InferFeaturesRows ==
    /\ pc = "L39"
    /\ trace' = Append(trace, "infer")
    /\ IF state_dict = <<>>
       THEN /\ outcome' = Raised(Exc("StopIteration", ""))
            /\ pc' = "done"
            /\ UNCHANGED num_features
       ELSE /\ num_features' = state_dict[1].tensor.shape[1]
            /\ pc' = "L40"
            /\ UNCHANGED outcome
    /\ UNCHANGED <<args, response, files, dirs, state_dict, model, netVars>>

\* line 39: num_features = next(iter(state_dict.values())).shape[1]
InferFeatures ==
    /\ pc = "L39"
    /\ trace' = Append(trace, "infer")
    /\ IF state_dict = <<>>
       THEN /\ outcome' = Raised(Exc("StopIteration", ""))
            /\ pc' = "done"
            /\ UNCHANGED num_features
       ELSE IF Len(state_dict[1].tensor.shape) < 2
       THEN /\ outcome' = Raised(Exc("IndexError", "tuple index out of range"))
            /\ pc' = "done"
            /\ UNCHANGED num_features
       ELSE /\ num_features' = state_dict[1].tensor.shape[2]
            /\ pc' = "L40"
            /\ UNCHANGED outcome
    /\ UNCHANGED <<args, response, files, dirs, state_dict, model, netVars>>

\* lines 40-43: construct the classifier for ml_model
Construct ==
    /\ pc = "L40"
    /\ trace' = Append(trace, "construct")
    /\ model' = IF args.ml_model = "ann"
                THEN ArtificialNeuralNetwork(num_features, <<HiddenWidth, HiddenWidth>>)
                ELSE LogisticRegression(num_features)
    /\ pc' = "L44"
    /\ UNCHANGED <<args, response, files, dirs, state_dict, num_features, outcome, netVars>>

\* line 44: model.load_state_dict(state_dict)
Bind ==
    /\ pc = "L44"
    /\ trace' = Append(trace, "bind")
    /\ IF BindErrors(model, state_dict) = NoBindErrors
       THEN /\ model' = Bound(model, state_dict)
            /\ pc' = "L51"
            /\ UNCHANGED outcome
       ELSE /\ outcome' = Raised(Exc("RuntimeError",
                            "Error(s) in loading state_dict"))
            /\ pc' = "done"
            /\ UNCHANGED model
    /\ UNCHANGED <<args, response, files, dirs, state_dict, num_features, netVars>>

\* line 51: return model
Return ==
    /\ pc = "L51"
    /\ trace' = Append(trace, "return")
    /\ outcome' = Returned(model)
    /\ pc' = "done"
    /\ UNCHANGED <<args, response, files, dirs, state_dict, num_features, model, netVars>>

NoCall == [data_name |-> "", ml_model |-> "", pretrained |-> FALSE]

Init ==
    /\ pc = "idle"
    /\ args = NoCall
    /\ response = None
    /\ files = {}
    /\ dirs = {}
    /\ state_dict = None
    /\ num_features = None
    /\ model = None
    /\ outcome = Running
    /\ trace = <<>>
    /\ net = None
    /\ probe = None
    /\ pred = None

NextLoader ==
    \/ \E d \in DataNames, k \in ModelKinds, p \in BOOLEAN : Call(d, k, p)
    \/ CheckPretrained
    \/ CheckRegistry
    \/ \E c \in Contents : Fetch(c)
    \/ FetchFails
    \/ WriteFile
    \/ Deserialize
    \/ InferFeatures
    \/ Construct
    \/ Bind
    \/ Return

SpecLoader == Init /\ [][NextLoader]_vars

----------------------------------------------------------------------------
(* Forward passes *)

Max(a, b) == IF a >= b THEN a ELSE b
Min(a, b) == IF a <= b THEN a ELSE b

\* element (j, i) of the weight and element j of the bias of the Linear at
\* position k, for parameters whose contents are data: small integers of both signs
WeightAt(data, k, j, i) == ((data + k + 2 * j + i) % 3) - 1
BiasAt(data, k, j) == ((data + k + j) % 3) - 1

RECURSIVE Dot(_, _, _, _, _)
Dot(data, k, j, x, i) ==
    IF i = 0 THEN 0 ELSE WeightAt(data, k, j, i) * x[i] + Dot(data, k, j, x, i - 1)

Value(v) == [ok |-> TRUE, value |-> v]
ShapeError == [ok |-> FALSE, value |-> <<>>]

\* the module at position k of self.network (an ArtificialNeuralNetwork's
\* nn.Sequential) applied to the vector x
ApplyLayer(m, k, x) ==
    LET layer == m.network[k]
        weight == m.params[Lookup(m.params, ChildName("network", TRUE, k) \o ".weight")].tensor
        bias == m.params[Lookup(m.params, ChildName("network", TRUE, k) \o ".bias")].tensor
    IN  IF layer.type = "ReLU"
        THEN Value([j \in 1..Len(x) |-> Max(0, x[j])])
        ELSE IF Len(x) # layer.in_features
        THEN ShapeError
        ELSE Value([j \in 1..layer.out_features |->
                        Dot(weight.data, k, j, x, layer.in_features)
                        + BiasAt(bias.data, k, j)])

\* nn.Sequential.forward over the children at the given positions, in order
RECURSIVE RunSequential(_, _, _)
RunSequential(m, positions, x) ==
    IF positions = <<>> THEN Value(x)
    ELSE LET y == ApplyLayer(m, Head(positions), x)
         IN  IF y.ok THEN RunSequential(m, Tail(positions), y.value) ELSE y

\* Python seq[:stop]
PySliceTo(seq, stop) ==
    SubSeq(seq, 1, IF stop < 0 THEN Max(stop + Len(seq), 0) ELSE Min(stop, Len(seq)))

\* Python seq[start:] for start >= 0
PySliceFrom(seq, start) == SubSeq(seq, Min(start, Len(seq)) + 1, Len(seq))

Positions(m) == [k \in 1..Len(m.network) |-> k]

\* line 123 with > for >=
LayerOutOfRangeStrict(m, hidden_layer_idx) == hidden_layer_idx > Len(m.network) \div 2

\* line 123: hidden_layer_idx >= len(self.network) // 2
LayerOutOfRange(m, hidden_layer_idx) == hidden_layer_idx >= Len(m.network) \div 2

\* line 126 with the activation always counted
NetworkIdxIgnoresPost(hidden_layer_idx, post_act) == 2 * hidden_layer_idx + 1

\* line 126: network_idx = 2 * hidden_layer_idx + int(post_act)
NetworkIdx(hidden_layer_idx, post_act) ==
    2 * hidden_layer_idx + (IF post_act THEN 1 ELSE 0)

\* line 127 with self.network[:network_idx]
ProbedLayersExclusive(m, network_idx) == PySliceTo(Positions(m), network_idx)

\* line 127: self.network[:network_idx+1]
ProbedLayers(m, network_idx) == PySliceTo(Positions(m), network_idx + 1)

\* ArtificialNeuralNetwork.predict_with_logits: self.network(x)
predict_with_logits(m, x) == RunSequential(m, Positions(m), x)

NoProbeExc == [type |-> "", count |-> 0, idx |-> 0]

\* torch.squeeze(shape): every dimension of size 1 is removed
RECURSIVE Squeeze(_)
Squeeze(shape) ==
    IF shape = <<>> THEN <<>>
    ELSE IF Head(shape) = 1 THEN Squeeze(Tail(shape))
    ELSE <<Head(shape)>> \o Squeeze(Tail(shape))

\* shape of self.forward(input): F.linear wants a last dimension of in_features
ForwardShape(m, shape) ==
    IF shape = <<>> \/ shape[Len(shape)] # m.input_dim
    THEN [ok |-> FALSE, value |-> <<>>]
    ELSE [ok |-> TRUE, value |-> SubSeq(shape, 1, Len(shape) - 1) \o <<m.n_class>>]

\* LogisticRegression.predict, lines 85-88: the shape of input
LRPredictInput(is_tensor, shape) == IF ~is_tensor THEN shape ELSE Squeeze(shape)

\* ArtificialNeuralNetwork.predict, line 142: the shape of input
ANNPredictInput(is_tensor, shape) == IF is_tensor THEN Squeeze(shape) ELSE shape

----------------------------------------------------------------------------
(* Classifiers built by their constructors and the calls made on them *)

Inputs(d) == [1..d -> {-1, 1}]
HiddenLayerLists == UNION {[1..h -> 1..MaxWidth] : h \in 0..MaxHidden}
Rank == Max(MaxBatch, MaxDim)
Shapes == UNION {[1..r -> 1..Rank] : r \in 1..2}

\* the parameters of m hold the contents data
WithData(m, data) ==
    [m EXCEPT !.params = [i \in 1..Len(m.params) |->
        [name |-> m.params[i].name, tensor |-> Tensor(m.params[i].tensor.shape, data)]]]

\* net = ArtificialNeuralNetwork(input_dim, hidden_layers)
NewANN(input_dim, hidden_layers, data) ==
    /\ net = None
    /\ net' = [module |-> WithData(ArtificialNeuralNetwork(input_dim, hidden_layers), data),
               hidden_layers |-> hidden_layers]
    /\ probe' = None
    /\ pred' = None
    /\ UNCHANGED loaderVars

\* net = LogisticRegression(input_dim)
NewLR(input_dim, data) ==
    /\ net = None
    /\ net' = [module |-> WithData(LogisticRegression(input_dim), data),
               hidden_layers |-> <<>>]
    /\ probe' = None
    /\ pred' = None
    /\ UNCHANGED loaderVars

\* net.predict_layer(x, hidden_layer_idx, post_act)
PredictLayer(x, hidden_layer_idx, post_act) ==
    /\ net # None
    /\ net.module.abbrv = "ann"
    /\ Len(x) = net.module.input_dim
    /\ probe = None /\ pred = None
    /\ LET m == net.module
           called == [x |-> x, hidden_layer_idx |-> hidden_layer_idx, post_act |-> post_act]
       IN  IF LayerOutOfRange(m, hidden_layer_idx)
           THEN probe' = [call |-> called,
                          exc |-> [type |-> "ValueError",
                                   count |-> Len(m.network) \div 2,
                                   idx |-> hidden_layer_idx],
                          sliced |-> <<>>,
                          result |-> ShapeError]
           ELSE LET sliced == ProbedLayers(m, NetworkIdx(hidden_layer_idx, post_act))
                IN  probe' = [call |-> called,
                              exc |-> NoProbeExc,
                              sliced |-> sliced,
                              result |-> RunSequential(m, sliced, x)]
    /\ pred' = None
    /\ UNCHANGED <<net, loaderVars>>

\* net.predict(data)
Predict(is_tensor, shape) ==
    /\ net # None
    /\ probe = None /\ pred = None
    /\ LET m == net.module
           input == IF m.abbrv = "lr" THEN LRPredictInput(is_tensor, shape)
                                      ELSE ANNPredictInput(is_tensor, shape)
       IN  pred' = [is_tensor |-> is_tensor, shape |-> shape, input |-> input,
                    output |-> ForwardShape(m, input)]
    /\ probe' = None
    /\ UNCHANGED <<net, loaderVars>>

\* the caller has taken the result (or the exception) of the last call on net;
\* calls are synchronous, the next one starts after it
CallReturns ==
    /\ probe # None \/ pred # None
    /\ probe' = None
    /\ pred' = None
    /\ UNCHANGED <<net, loaderVars>>

NextNet ==
    \/ \E d \in 1..MaxDim, hl \in HiddenLayerLists, s \in 0..MaxSeed : NewANN(d, hl, s)
    \/ \E d \in 1..MaxDim, s \in 0..MaxSeed : NewLR(d, s)
    \/ \E x \in UNION {Inputs(d) : d \in 1..MaxDim},
          i \in -MaxIdx..MaxIdx, post \in BOOLEAN : PredictLayer(x, i, post)
    \/ \E t \in BOOLEAN, sh \in Shapes : Predict(t, sh)
    \/ CallReturns

SpecNet == Init /\ [][NextNet]_vars

----------------------------------------------------------------------------
(* Properties of LoadModel *)

Range(f) == {f[i] : i \in DOMAIN f}
IsPrefix(s, t) == Len(s) <= Len(t) /\ SubSeq(t, 1, Len(s)) = s

Registered(kind, dataset) ==
    /\ kind \in DOMAIN dataverse_ids
    /\ dataset \in DOMAIN dataverse_ids[kind]

TrainingNotSupported ==
    Exc("NotImplementedError", "does not support training a ML model from scratch, yet")
UnsupportedCombination ==
    Exc("NotImplementedError", "does not support this data set for these models")
ParameterBindMismatch ==
    Exc("RuntimeError", "Error(s) in loading state_dict")

\* a call that got its mapping from the deserializer
Deserialized == pc = "L39" \/ "infer" \in Range(trace)

\* C1: a call with pretrained = False, whatever the dataset and the kind, ends
\* with the training-not-supported error and at no point holds, constructs or
\* returns a classifier (and requests and deserializes nothing).
C1_TrainingNotSupported ==
    (pc # "idle" /\ ~args.pretrained) =>
        /\ model = None
        /\ response = None
        /\ outcome.status # "returned"
        /\ "construct" \notin Range(trace)
        /\ pc = "done" => outcome = Raised(TrainingNotSupported)

C1_Witness ==
    /\ pc = "done"
    /\ ~args.pretrained
    /\ args.ml_model = "svm"
    /\ outcome = Raised(TrainingNotSupported)

\* C2: a call with pretrained = True for a (kind, dataset) pair that is not in
\* the registry, the kind itself being unknown included, ends with the
\* unsupported-combination error and returns no classifier.
C2_UnsupportedCombination ==
    (pc = "done" /\ args.pretrained /\ ~Registered(args.ml_model, args.data_name)) =>
        /\ outcome = Raised(UnsupportedCombination)
        /\ model = None

\* the names, shapes and order a checkpoint of this kind has
WellFormed(kind, sd) ==
    /\ Len(sd) > 0
    /\ Len(sd[1].tensor.shape) = 2
    /\ LET expected == SavedStateDict(kind, sd[1].tensor.shape[2], 0)
       IN  /\ Len(sd) = Len(expected)
           /\ \A i \in 1..Len(sd) :
                /\ sd[i].name = expected[i].name
                /\ sd[i].tensor.shape = expected[i].tensor.shape

\* C6: a call for a registered pair whose deserialized mapping is well formed
\* returns a classifier of the requested kind (for ann: hidden widths 100, 100),
\* whose input_dim is the second dimension of the first tensor of the mapping
\* and whose every parameter is the tensor of the same name in the mapping.
C6_LoadBindsMapping ==
    (pc = "done" /\ Deserialized /\ WellFormed(args.ml_model, state_dict)) =>
        /\ outcome.status = "returned"
        /\ LET m == outcome.value
           IN  /\ m.abbrv = args.ml_model
               /\ m.input_dim = state_dict[1].tensor.shape[2]
               /\ m.network[1].in_features = state_dict[1].tensor.shape[2]
               /\ args.ml_model = "lr" =>
                    /\ m.name = "LogisticRegression"
                    /\ Len(m.network) = 1
                    /\ m.network[1].out_features = NClass
               /\ args.ml_model = "ann" =>
                    /\ m.name = "ArtificialNeuralNetwork"
                    /\ Len(m.network) = 5
                    /\ m.network[1].out_features = 100
                    /\ m.network[3].in_features = 100
                    /\ m.network[3].out_features = 100
                    /\ m.network[5].in_features = 100
                    /\ m.network[2].type = "ReLU" /\ m.network[4].type = "ReLU"
               /\ Names(m.params) = Names(state_dict)
               /\ \A i \in 1..Len(m.params) : \E j \in 1..Len(state_dict) :
                    /\ state_dict[j].name = m.params[i].name
                    /\ state_dict[j].tensor = m.params[i].tensor

C6_Witness ==
    /\ pc = "done"
    /\ outcome.status = "returned"
    /\ args.ml_model = "ann"
    /\ WellFormed("ann", state_dict)
    /\ outcome.value.input_dim = MaxDim
    /\ \A i \in 1..Len(outcome.value.params) : outcome.value.params[i].tensor.data = MaxSeed

\* some entry of the mapping has no slot of that name and shape in the target
\* architecture, a slot has no entry, or the first entry is not a matrix
Mismatched(kind, sd) ==
    \/ Len(sd) = 0
    \/ Len(sd[1].tensor.shape) < 2
    \/ LET expected == SavedStateDict(kind, sd[1].tensor.shape[2], 0)
       IN  \/ Names(sd) # Names(expected)
           \/ \E i \in 1..Len(sd), j \in 1..Len(expected) :
                /\ sd[i].name = expected[j].name
                /\ sd[i].tensor.shape # expected[j].tensor.shape

\* C7: a call for a registered pair whose deserialized mapping has a parameter
\* that does not match its slot (missing, extra, misnamed, misshaped, or a
\* rank-1 first entry) ends with the bind-mismatch error and returns nothing.
C7_ParameterBindMismatch ==
    (pc = "done" /\ Deserialized /\ Mismatched(args.ml_model, state_dict)) =>
        outcome = Raised(ParameterBindMismatch)

StepOrder ==
    <<"check_pretrained", "check_registry", "fetch", "write", "deserialize",
      "infer", "construct", "bind", "return">>

\* C9: the steps of a call run in the order validate, fetch, write, deserialize,
\* construct, bind, each at most once; a request is sent and the file written
\* only for an accepted call, a classifier exists only after the mapping was
\* deserialized, and a call that raised has stopped.
C9_StepOrder ==
    /\ IsPrefix(trace, StepOrder)
    /\ outcome.status # "running" => pc = "done"
    /\ ("fetch" \in Range(trace) \/ "write" \in Range(trace) \/ response # None) =>
            (args.pretrained /\ Registered(args.ml_model, args.data_name))
    /\ model # None =>
            /\ SubSeq(trace, 1, 5) = SubSeq(StepOrder, 1, 5)
            /\ response # None
            /\ response.content.picklable

C9_Witness ==
    /\ pc = "done"
    /\ trace = StepOrder
    /\ outcome.status = "returned"

----------------------------------------------------------------------------
(* Properties of predict_layer and predict *)

Probed == probe # None
HiddenCount == Len(net.hidden_layers)

\* C3: on a network built from H hidden widths, predict_layer raises the
\* out-of-range error, naming H as the number of hidden layers, for every
\* index >= H, and raises nothing for index H-1 when H >= 1, whatever post_act.
C3_LayerIndexOutOfRange ==
    Probed =>
        /\ probe.call.hidden_layer_idx >= HiddenCount =>
                /\ probe.exc.type = "ValueError"
                /\ probe.exc.count = HiddenCount
                /\ probe.exc.idx = probe.call.hidden_layer_idx
                /\ ~probe.result.ok
        /\ (HiddenCount >= 1 /\ probe.call.hidden_layer_idx = HiddenCount - 1) =>
                /\ probe.exc = NoProbeExc
                /\ probe.result.ok

C3_Witness ==
    /\ Probed
    /\ HiddenCount = 2
    /\ probe.call.hidden_layer_idx = HiddenCount
    /\ probe.call.post_act
    /\ probe.exc.type = "ValueError"

\* the output of the first i (affine, activation) pairs of m on x
RECURSIVE AfterPairs(_, _, _)
AfterPairs(m, x, i) ==
    IF i = 0 THEN x
    ELSE ApplyLayer(m, 2 * i,
            ApplyLayer(m, 2 * i - 1, AfterPairs(m, x, i - 1)).value).value

\* C4: for 0 <= i < H, predict_layer returns the first i (affine, activation)
\* pairs followed by affine i and, exactly when post_act holds, activation i:
\* the first 2i+1 layers of the sequence without post_act, the first 2i+2 with.
C4_ProbedPrefix ==
    (Probed /\ probe.call.hidden_layer_idx >= 0
            /\ probe.call.hidden_layer_idx < HiddenCount) =>
        LET i == probe.call.hidden_layer_idx
            affine == ApplyLayer(net.module, 2 * i + 1, AfterPairs(net.module, probe.call.x, i)).value
            n == IF probe.call.post_act THEN 2 * i + 2 ELSE 2 * i + 1
        IN  /\ probe.exc = NoProbeExc
            /\ probe.sliced = [k \in 1..n |-> k]
            /\ probe.result.ok
            /\ probe.result.value =
                    IF probe.call.post_act
                    THEN ApplyLayer(net.module, 2 * i + 2, affine).value
                    ELSE affine

C4_Witness ==
    /\ Probed
    /\ HiddenCount = 2
    /\ probe.call.hidden_layer_idx = 1
    /\ ~probe.call.post_act
    /\ Len(probe.sliced) = 3
    /\ \E j \in 1..Len(probe.result.value) : probe.result.value[j] < 0

\* C5: for 0 <= i < H, running the layers after hidden layer i (from position
\* 2i+2 of the sequence to the final affine) on predict_layer(x, i, True)
\* gives predict_with_logits(x).
C5_ProbeRoundTrip ==
    (Probed /\ probe.call.post_act
            /\ probe.call.hidden_layer_idx >= 0
            /\ probe.call.hidden_layer_idx < HiddenCount) =>
        /\ probe.result.ok
        /\ RunSequential(net.module,
                PySliceFrom(Positions(net.module), 2 * probe.call.hidden_layer_idx + 2),
                probe.result.value)
            = predict_with_logits(net.module, probe.call.x)

C5_Witness ==
    /\ Probed
    /\ probe.call.post_act
    /\ HiddenCount = 2
    /\ probe.call.hidden_layer_idx = 0
    /\ probe.result.ok
    /\ Len(probe.sliced) = 2
    /\ predict_with_logits(net.module, probe.call.x).ok

\* C8: predict evaluates an input of shape (1, ...) without its leading
\* dimension and every other input with its shape unchanged, tensor or not.
C8_PredictSqueezesLeading ==
    pred # None =>
        pred.input = IF Len(pred.shape) >= 2 /\ pred.shape[1] = 1
                     THEN Tail(pred.shape)
                     ELSE pred.shape

\* C10: whenever predict_layer raises nothing, negative indices included, what
\* it returns is the output of a non-empty prefix of the layer sequence that
\* ends at the affine or the activation of hidden layer hidden_layer_idx and
\* does not contain the final affine.
C10_ProbeStaysInHiddenLayer ==
    (Probed /\ probe.exc = NoProbeExc) =>
        /\ Len(probe.sliced) >= 1
        /\ Len(net.module.network) \notin Range(probe.sliced)
        /\ Len(probe.sliced) \in {2 * probe.call.hidden_layer_idx + 1,
                                  2 * probe.call.hidden_layer_idx + 2}

====
